---------------------------- MODULE Spec2Model ----------------------------
(***************************************************************************)
(* Model of the muted-notification OBS filter (plugin-main.c) and of the   *)
(* overlay request fields of indicator.cpp.                                *)
(*                                                                         *)
(* Threads: the processing thread runs muted_create, muted_update,         *)
(* muted_filter_audio and muted_destroy one after the other (pc is its     *)
(* position); the backend's output thread runs playback_cb whenever the    *)
(* output device is started; the host flips the mute flag and the clock    *)
(* advances at any time.                                                   *)
(*                                                                         *)
(* Numbers: the code computes in float.  The model computes in fixed       *)
(* point: amplitudes in units of 1/AmpOne, attenuation in units of         *)
(* 1/AttOne, seconds in units of 1/SecOne.  The input sets are chosen so   *)
(* that every division below is exact.  An infinite float (1.0f / 0.0f,    *)
(* for an attack or release time of 0 ms) is the record Inf.               *)
(***************************************************************************)
EXTENDS Integers, Sequences, FiniteSets, TLC

(* ------------------------------ bounds ------------------------------- *)

\* frames per buffer handed to muted_filter_audio: 0 .. MaxFrames
MaxFrames == 2

\* the clock advances MaxTicks times at most
MaxTicks == 4

\* held_time is followed for MaxHeldSamples sample periods of a closed gate
MaxHeldSamples == 3

\* level is followed up to MaxLevelSteps decay steps above full scale
\* (it only grows without bound when close_threshold > open_threshold)
MaxLevelSteps == 1

(* --------------------------- number formats -------------------------- *)

\* 1.0f as an amplitude (db_to_mul(0 dB))
AmpOne == 32

\* 1.0f as an attenuation
AttOne == 3

\* one second, in the unit ms_to_secf and sample_rate_i are kept in
SecOne == 75 * 1000

NULL == "<NULL>"

Inf == [inf |-> TRUE, v |-> 0]

Fin(x) == [inf |-> FALSE, v |-> x]

Max(a, b) == IF a >= b THEN a ELSE b

Min(a, b) == IF a <= b THEN a ELSE b

Abs(x) == IF x < 0 THEN -x ELSE x

RECURSIVE Pow2(_)
Pow2(n) == IF n <= 0 THEN 1 ELSE 2 * Pow2(n - 1)

\* db_to_mul: 10^(db/20), which is 2^(db/6) to within 0.2 percent
db_to_mul(db) == AmpOne \div Pow2((-db) \div 6)

\* ms_to_secf: (float)ms / 1000.0f
ms_to_secf(ms) == (ms * SecOne) \div 1000

\* 1.0f / (secs * sample_rate), in attenuation units; 1/0 is +inf
RateOf(secs, sample_rate) ==
    IF secs * sample_rate = 0 THEN Inf
    ELSE Fin((AttOne * SecOne) \div (secs * sample_rate))

\* the attack step without its fminf
AttackStep_NoClamp(attenuation, attack_rate) ==
    IF attack_rate.inf THEN AttOne ELSE attenuation + attack_rate.v

\* fminf(1.0f, attenuation + attack_rate)
AttackStep(attenuation, attack_rate) ==
    IF attack_rate.inf THEN AttOne ELSE Min(AttOne, attenuation + attack_rate.v)

\* fmaxf(0.0f, attenuation - release_rate)
ReleaseStep(attenuation, release_rate) ==
    IF release_rate.inf THEN 0 ELSE Max(0, attenuation - release_rate.v)

(* ------------------------- the environment --------------------------- *)

\* the clips on disk: frame count, output sample rate, sample format and
\* channel count of each file that decodes; any other path fails in
\* ma_decoder_init_file
Clips == [ a |-> [frameCount |-> 3, outputSampleRate |-> 2,
                  outputFormat |-> "s16", outputChannels |-> 2],
           b |-> [frameCount |-> 1, outputSampleRate |-> 2,
                  outputFormat |-> "f32", outputChannels |-> 1] ]

ValidPaths == DOMAIN Clips

\* the playback devices ma_context_get_devices enumerates
PresentDevices == {"spk", "hdmi"}

\* frames the backend asks of playback_cb in one call
CbFrames == {1, 2}

\* what the clock advances by, in ms
ClockSteps == {500, 1000}

MaxClock == MaxTicks * 500

(* ------------------------------ state -------------------------------- *)

VARIABLES
    pc,       \* position of the processing thread
    ng,       \* struct muted_data
    upd,      \* muted_update's path and device while it runs
    buf,      \* muted_filter_audio's frames, i and cur_level, the sample
              \* adata[.][i] the last pass of the loop was given and what
              \* the buffer holds in its place after the pass, whether
              \* every sample so far was above open_threshold and whether
              \* a pass so far has set is_open
    muted,    \* obs_source_muted(parent)
    clock,    \* os_gettime_ns() / 1e6
    overlay,  \* OverlayWidget: its request fields, m_start_time, whether
              \* it is visible, and the position of tick() on the UI thread
    hist      \* what the last muted_filter_audio call did: found the source
              \* unmuted, fired a trigger, fired it after an earlier one,
              \* started the device, called the decoder's seek (play_audio
              \* ran), called indicator_show

vars == <<pc, ng, upd, buf, muted, clock, overlay, hist>>

NoUpd == [path |-> NULL, device |-> NULL]

\* the configuration of a device that is not initialised
NoConfig == [format |-> "unknown", channels |-> 0, sampleRate |-> 0]

\* OverlayWidget's constructor: the members' initialisers, setFixedSize(50,
\* 50), setVisible(false), and tick() waiting for the timer.  restarted
\* records whether the last request tick showed found the widget visible.
NewOverlay ==
    [m_want_show |-> FALSE, m_timeout_ms |-> 0, m_indicator_size |-> 0,
     m_start_time |-> 0, size |-> 50, visible |-> FALSE, restarted |-> FALSE,
     pc |-> "wait"]

NoBuf ==
    [frames |-> 0, i |-> 0, cur_level |-> 0, sample |-> <<0, 0>>,
     stored |-> <<0, 0>>, loud |-> TRUE, opened |-> FALSE]

\* bzalloc(sizeof(*ng))
ZeroData ==
    [ file_path |-> NULL, device |-> NULL, ma_initialized |-> FALSE,
      ma_device |-> "uninit", device_config |-> NoConfig,
      ma_decoder |-> [init |-> FALSE, clip |-> NULL, cursor |-> 0],
      sample_rate_i |-> 0, channels |-> 0,
      open_threshold |-> 0, close_threshold |-> 0, decay_rate |-> 0,
      attack_rate |-> Fin(0), release_rate |-> Fin(0), hold_time |-> 0,
      is_open |-> FALSE, attenuation |-> 0, level |-> 0, held_time |-> 0,
      cooldown |-> 0, last_play_time |-> 0, file_length |-> 0,
      audio_indicator |-> FALSE, visual_indicator |-> FALSE,
      indicator_size |-> 0 ]

Init ==
    /\ pc = "create"
    /\ ng = ZeroData
    /\ upd = NoUpd
    /\ buf = NoBuf
    /\ muted \in BOOLEAN
    /\ clock = 0
    /\ overlay = NewOverlay
    /\ hist = [unmuted |-> FALSE, fired |-> FALSE, again |-> FALSE,
               started |-> FALSE, seeks |-> FALSE, shown |-> FALSE]


TypeOK ==
    /\ pc \in {"create", "update", "idle", "u_free_wav", "u_load_wav",
               "u_free_device", "u_open_device", "u_free_device2",
               "u_open_device2", "f_loop", "p_start", "p_seek", "f_show",
               "q_size", "q_want",
               "d_free_device", "destroyed"}
    /\ muted \in BOOLEAN
    /\ clock \in 0..MaxClock
    /\ ng.ma_device \in {"uninit", "stopped", "started"}
    /\ ng.is_open \in BOOLEAN
    /\ buf.i \in 0..buf.frames
    /\ overlay.pc \in {"wait", "t_start", "t_clear", "t_visible", "t_timeout",
                       "t_expired", "t_hide", "t_zero"}
    /\ overlay.visible \in BOOLEAN
    /\ overlay.m_start_time \in 0..MaxClock

(* ------------------------ the playback unit -------------------------- *)

\* free_wav: ma_decoder_uninit, file_path = NULL.  The decoder's memory keeps
\* the released clip's format fields.
free_wav(d) ==
    [d EXCEPT !.ma_decoder = [init |-> FALSE, clip |-> @.clip, cursor |-> 0],
              !.file_path = NULL]

\* what the clip lasts on the device, which open_device configures to take
\* outputSampleRate frames a second: frameCount * 1000 / outputSampleRate ms,
\* rounded down
ClipDurationMs(clip) == (clip.frameCount * 1000) \div clip.outputSampleRate

\* (frameCount / outputSampleRate) * 1000, in integers as the code computes it
FileLength(clip) == (clip.frameCount \div clip.outputSampleRate) * 1000

\* load_wav: on success the decoder is initialised at frame 0, file_path and
\* file_length are set; on failure nothing is written
load_wav(d, path) ==
    IF path \in ValidPaths
    THEN [d EXCEPT !.ma_decoder = [init |-> TRUE, clip |-> path, cursor |-> 0],
                   !.file_path = path,
                   !.file_length = FileLength(Clips[path])]
    ELSE d

\* free_device: ma_device_uninit (stops the stream and waits for the
\* callback), device = NULL
free_device(d) ==
    [d EXCEPT !.ma_device = "uninit", !.device_config = NoConfig,
              !.device = NULL]

\* outputFormat, outputChannels and outputSampleRate as the decoder's memory
\* holds them: those of the clip it was last initialised on
DecoderFormat(dec) ==
    IF dec.clip = NULL THEN NoConfig
    ELSE [format |-> Clips[dec.clip].outputFormat,
          channels |-> Clips[dec.clip].outputChannels,
          sampleRate |-> Clips[dec.clip].outputSampleRate]

\* open_device: enumeration needs an initialised context; the name must be
\* enumerated; ma_device_init, on a configuration copied from the decoder,
\* succeeds or fails (init_ok)
open_device(d, device, init_ok) ==
    IF ~d.ma_initialized THEN d
    ELSE IF device \notin PresentDevices THEN d
    ELSE IF init_ok
         THEN [d EXCEPT !.ma_device = "stopped",
                        !.device_config = DecoderFormat(d.ma_decoder),
                        !.device = device]
    ELSE d

\* ma_device_start: a stopped device starts; an uninitialised one fails
DeviceStart(state) == IF state = "uninit" THEN "uninit" ELSE "started"

\* ma_decoder_seek_to_pcm_frame(&ma_decoder, 0) on an initialised decoder
DecoderSeek(dec) == IF dec.init THEN [dec EXCEPT !.cursor = 0] ELSE dec

\* a read that wraps to the clip's start at its end
DecoderRead_Looping(dec, frame_count) ==
    [dec EXCEPT !.cursor = (@ + frame_count) % (Clips[dec.clip].frameCount + 1)]

\* ma_decoder_read_pcm_frames until frame_count frames or MA_AT_END
DecoderRead(dec, frame_count) ==
    [dec EXCEPT !.cursor = Min(Clips[dec.clip].frameCount, @ + frame_count)]

(* --------------------------- the gate engine ------------------------- *)

\* cur_level without the fabsf: the largest signed sample
CurLevel_Signed(sample, channels) ==
    LET m[j \in 0..channels] ==
            IF j = 0 THEN sample[1] ELSE Max(m[j - 1], sample[j])
    IN  m[channels]

\* cur_level: fabsf of channel 0, then fmaxf over the first `channels`
\* channels (sample[j + 1] is adata[j][i])
CurLevel(sample, channels) ==
    LET m[j \in 0..channels] ==
            IF j = 0 THEN Abs(sample[1]) ELSE Max(m[j - 1], Abs(sample[j]))
    IN  m[channels]

\* the open test with >= for >
OpenTest_AtThreshold(cur_level, open_threshold, is_open) ==
    IF cur_level >= open_threshold /\ ~is_open THEN TRUE ELSE is_open

\* if (cur_level > open_threshold && !is_open) is_open = true
OpenTest(cur_level, open_threshold, is_open) ==
    IF cur_level > open_threshold /\ ~is_open THEN TRUE ELSE is_open

\* the close test with <= for <
CloseTest_AtThreshold(level, close_threshold, is_open) ==
    level <= close_threshold /\ is_open

\* if (level < close_threshold && is_open): the gate closes
CloseTest(level, close_threshold, is_open) ==
    level < close_threshold /\ is_open

\* level = fmaxf(level, cur_level) - decay_rate
LevelStep(level, cur_level, decay_rate) == Max(level, cur_level) - decay_rate

\* the loop body with the close test before the open test
SampleStep_CloseFirst(d, cur_level) ==
    LET closes == CloseTest(d.level, d.close_threshold, d.is_open)
        closed == IF closes THEN FALSE ELSE d.is_open
        open   == OpenTest(cur_level, d.open_threshold, closed)
        held0  == IF closes THEN 0 ELSE d.held_time
        held   == IF open THEN held0 ELSE held0 + d.sample_rate_i
        att    == IF open THEN AttackStep(d.attenuation, d.attack_rate)
                  ELSE IF held > d.hold_time
                       THEN ReleaseStep(d.attenuation, d.release_rate)
                       ELSE d.attenuation
    IN  [d EXCEPT !.is_open = open,
                  !.held_time = held,
                  !.level = LevelStep(d.level, cur_level, d.decay_rate),
                  !.attenuation = att]

\* the loop body without held_time = 0 in the close branch
SampleStep_NoHeldReset(d, cur_level) ==
    LET opened == OpenTest(cur_level, d.open_threshold, d.is_open)
        closes == CloseTest(d.level, d.close_threshold, opened)
        open   == IF closes THEN FALSE ELSE opened
        held   == IF open THEN d.held_time ELSE d.held_time + d.sample_rate_i
        att    == IF open THEN AttackStep(d.attenuation, d.attack_rate)
                  ELSE IF held > d.hold_time
                       THEN ReleaseStep(d.attenuation, d.release_rate)
                       ELSE d.attenuation
    IN  [d EXCEPT !.is_open = open,
                  !.held_time = held,
                  !.level = LevelStep(d.level, cur_level, d.decay_rate),
                  !.attenuation = att]

\* one pass of the sample loop's body over the gate fields of d
SampleStep(d, cur_level) ==
    LET opened == OpenTest(cur_level, d.open_threshold, d.is_open)
        closes == CloseTest(d.level, d.close_threshold, opened)
        open   == IF closes THEN FALSE ELSE opened
        held0  == IF closes THEN 0 ELSE d.held_time
        held   == IF open THEN held0 ELSE held0 + d.sample_rate_i
        att    == IF open THEN AttackStep(d.attenuation, d.attack_rate)
                  ELSE IF held > d.hold_time
                       THEN ReleaseStep(d.attenuation, d.release_rate)
                       ELSE d.attenuation
    IN  [d EXCEPT !.is_open = open,
                  !.held_time = held,
                  !.level = LevelStep(d.level, cur_level, d.decay_rate),
                  !.attenuation = att]

\* the loop body writing the sample back scaled by the attenuation, as a
\* noise gate does
StoreSample_Attenuated(sample, attenuation) ==
    [j \in DOMAIN sample |-> (sample[j] * attenuation) \div AttOne]

\* what the loop body leaves in adata[.][i]: it only reads the sample
StoreSample(sample, attenuation) == sample

\* the trigger test with the clip's length left out of the window
ShouldFire_CooldownOnly(d, time) ==
    d.is_open /\ (time - d.last_play_time) > d.cooldown

\* the trigger test with the cooldown counted twice
ShouldFire_LongWindow(d, time) ==
    d.is_open /\ (time - d.last_play_time) > (d.file_length + 2 * d.cooldown)

\* the trigger test without the gate
ShouldFire_IgnoresGate(d, time) ==
    (time - d.last_play_time) > (d.file_length + d.cooldown)

\* is_open && (time - last_play_time) > (file_length + cooldown)
ShouldFire(d, time) ==
    d.is_open /\ (time - d.last_play_time) > (d.file_length + d.cooldown)

\* cooldown * 0.7f rounded to the nearest ms
FlashTimeout_Rounded(cooldown) == (cooldown * 7 + 5) \div 10

\* (int)(cooldown * 0.7f): the float product converted to indicator_show's int
\* parameter, which truncates
FlashTimeout(cooldown) == (cooldown * 7) \div 10

(* ------------------------------ settings ----------------------------- *)

\* the obs_data_t settings object muted_update reads, with the sample rate and
\* channel count obs_get_audio() reports
SettingsOf(paths, devices, thresholds_db, times_ms, cooldowns, flags) ==
    { [ file |-> p, device |-> dv,
        open_threshold |-> th[1], close_threshold |-> th[2],
        attack_time |-> tm[1], hold_time |-> tm[2], release_time |-> tm[3],
        cooldown |-> cd, audio_indicator |-> fl[1], visual_indicator |-> fl[2],
        visual_indicator_size |-> 45, sample_rate |-> 75, channels |-> 2 ] :
      p \in paths, dv \in devices, th \in thresholds_db, tm \in times_ms,
      cd \in cooldowns, fl \in flags }

\* Configure without the reset of level
Configure_KeepsLevel(d, s) ==
    LET open  == db_to_mul(s.open_threshold)
        close == db_to_mul(s.close_threshold)
    IN  [d EXCEPT
            !.cooldown = s.cooldown,
            !.audio_indicator = s.audio_indicator,
            !.visual_indicator = s.visual_indicator,
            !.indicator_size = s.visual_indicator_size,
            !.sample_rate_i = SecOne \div s.sample_rate,
            !.channels = s.channels,
            !.open_threshold = open,
            !.close_threshold = close,
            !.attack_rate = RateOf(ms_to_secf(s.attack_time), s.sample_rate),
            !.release_rate = RateOf(ms_to_secf(s.release_time), s.sample_rate),
            !.decay_rate = ((open - close) * 75) \div s.sample_rate,
            !.hold_time = ms_to_secf(s.hold_time),
            !.is_open = FALSE,
            !.attenuation = 0,
            !.held_time = 0]

\* lines 319-341 of muted_update: the settings are stored, the coefficients
\* recomputed and the gate state reset
Configure(d, s) ==
    LET open  == db_to_mul(s.open_threshold)
        close == db_to_mul(s.close_threshold)
    IN  [d EXCEPT
            !.cooldown = s.cooldown,
            !.audio_indicator = s.audio_indicator,
            !.visual_indicator = s.visual_indicator,
            !.indicator_size = s.visual_indicator_size,
            !.sample_rate_i = SecOne \div s.sample_rate,
            !.channels = s.channels,
            !.open_threshold = open,
            !.close_threshold = close,
            !.attack_rate = RateOf(ms_to_secf(s.attack_time), s.sample_rate),
            !.release_rate = RateOf(ms_to_secf(s.release_time), s.sample_rate),
            !.decay_rate = ((open - close) * 75) \div s.sample_rate,
            !.hold_time = ms_to_secf(s.hold_time),
            !.is_open = FALSE,
            !.attenuation = 0,
            !.level = 0,
            !.held_time = 0]

\* the path test taken as changed on every update
PathChanged_Always(d, path) == TRUE

\* if (!ng->file_path || strcmp(path, ng->file_path) != 0)
PathChanged(d, path) == d.file_path = NULL \/ path # d.file_path

\* if (!ng->device || strcmp(device, ng->device) != 0)
DeviceChanged(d, device) == d.device = NULL \/ device # d.device

NoHist ==
    [unmuted |-> FALSE, fired |-> FALSE, again |-> FALSE, started |-> FALSE,
     seeks |-> FALSE, shown |-> FALSE]

(* ------------------------------ actions ------------------------------ *)

\* muted_create: the context initialises (and muted_update runs next) or not
muted_create ==
    /\ pc = "create"
    /\ \E ctx_ok \in BOOLEAN :
          IF ctx_ok
          THEN /\ ng' = [ng EXCEPT !.ma_initialized = TRUE]
               /\ pc' = "update"
          ELSE /\ pc' = "idle"
               /\ ng' = ng
    /\ UNCHANGED <<upd, buf, muted, clock, overlay, hist>>

\* muted_update up to its first resource step
muted_update(s) ==
    /\ pc \in {"idle", "update"}
    /\ ng' = Configure(ng, s)
    /\ IF PathChanged(ng, s.file)
       THEN pc' = "u_free_wav" /\ upd' = [path |-> s.file, device |-> s.device]
       ELSE IF DeviceChanged(ng, s.device)
       THEN pc' = "u_free_device2" /\ upd' = [path |-> s.file, device |-> s.device]
       ELSE pc' = "idle" /\ upd' = NoUpd
    /\ hist' = NoHist
    /\ UNCHANGED <<buf, muted, clock, overlay>>

update_free_wav ==
    /\ pc = "u_free_wav"
    /\ ng' = free_wav(ng)
    /\ pc' = "u_load_wav"
    /\ UNCHANGED <<upd, buf, muted, clock, overlay, hist>>

update_load_wav ==
    /\ pc = "u_load_wav"
    /\ ng' = load_wav(ng, upd.path)
    /\ pc' = "u_free_device"
    /\ UNCHANGED <<upd, buf, muted, clock, overlay, hist>>

update_free_device ==
    /\ pc = "u_free_device"
    /\ ng' = free_device(ng)
    /\ pc' = "u_open_device"
    /\ UNCHANGED <<upd, buf, muted, clock, overlay, hist>>

update_open_device(init_oks) ==
    /\ pc = "u_open_device"
    /\ \E init_ok \in init_oks : ng' = open_device(ng, upd.device, init_ok)
    /\ IF DeviceChanged(ng', upd.device)
       THEN pc' = "u_free_device2" /\ upd' = upd
       ELSE pc' = "idle" /\ upd' = NoUpd
    /\ UNCHANGED <<buf, muted, clock, overlay, hist>>

update_free_device2 ==
    /\ pc = "u_free_device2"
    /\ ng' = free_device(ng)
    /\ pc' = "u_open_device2"
    /\ UNCHANGED <<upd, buf, muted, clock, overlay, hist>>

update_open_device2(init_oks) ==
    /\ pc = "u_open_device2"
    /\ \E init_ok \in init_oks : ng' = open_device(ng, upd.device, init_ok)
    /\ pc' = "idle"
    /\ upd' = NoUpd
    /\ UNCHANGED <<buf, muted, clock, overlay, hist>>

\* muted_filter_audio's entry without the forced close of an unmuted source
filter_begin_NoForcedClose ==
    /\ pc = "idle"
    /\ hist' = [NoHist EXCEPT !.unmuted = ~muted]
    /\ IF ~muted
       THEN UNCHANGED <<pc, buf, ng>>
       ELSE /\ \E frames \in 0..MaxFrames :
                  buf' = [NoBuf EXCEPT !.frames = frames]
            /\ pc' = "f_loop"
            /\ ng' = ng
    /\ UNCHANGED <<upd, muted, clock, overlay>>

\* muted_filter_audio's entry running the sample loop on an unmuted source too
filter_begin_LoopWhenUnmuted ==
    /\ pc = "idle"
    /\ hist' = [NoHist EXCEPT !.unmuted = ~muted]
    /\ \E frames \in 0..MaxFrames : buf' = [NoBuf EXCEPT !.frames = frames]
    /\ pc' = "f_loop"
    /\ ng' = ng
    /\ UNCHANGED <<upd, muted, clock, overlay>>

\* muted_filter_audio, lines 390-404: an unmuted source closes the gate and
\* returns; otherwise the sample loop starts
filter_begin ==
    /\ pc = "idle"
    /\ hist' = [NoHist EXCEPT !.unmuted = ~muted]
    /\ IF ~muted
       THEN /\ ng' = [ng EXCEPT !.is_open = FALSE]
            /\ UNCHANGED <<pc, buf>>
       ELSE /\ \E frames \in 0..MaxFrames :
                  buf' = [NoBuf EXCEPT !.frames = frames]
            /\ pc' = "f_loop"
            /\ ng' = ng
    /\ UNCHANGED <<upd, muted, clock, overlay>>

\* one pass of the sample loop, lines 406-430
filter_sample(sample) ==
    /\ pc = "f_loop"
    /\ buf.i < buf.frames
    /\ LET cur_level == CurLevel(sample, ng.channels)
           d == SampleStep(ng, cur_level)
       IN  /\ d.held_time <= MaxHeldSamples * d.sample_rate_i
           /\ d.level <= AmpOne + MaxLevelSteps * Abs(d.decay_rate)
           /\ ng' = d
           /\ buf' = [buf EXCEPT !.i = @ + 1, !.cur_level = cur_level,
                                 !.sample = sample,
                                 !.stored = StoreSample(sample, d.attenuation),
                                 !.loud = @ /\ cur_level > ng.open_threshold,
                                 !.opened = @ \/ (~ng.is_open /\
                                     OpenTest(cur_level, ng.open_threshold,
                                              ng.is_open))]
    /\ UNCHANGED <<pc, upd, muted, clock, overlay, hist>>

\* lines 432-434 and the return: the trigger test after the loop
filter_trigger ==
    /\ pc = "f_loop"
    /\ buf.i = buf.frames
    /\ LET time == clock
       IN  IF ShouldFire(ng, time)
           THEN /\ ng' = [ng EXCEPT !.last_play_time = time]
                /\ hist' = [hist EXCEPT !.fired = TRUE,
                                        !.again = (ng.last_play_time > 0)]
                /\ pc' = IF ng.audio_indicator THEN "p_start"
                         ELSE IF ng.visual_indicator THEN "f_show" ELSE "idle"
           ELSE /\ pc' = "idle"
                /\ UNCHANGED <<ng, hist>>
    /\ buf' = NoBuf
    /\ UNCHANGED <<upd, muted, clock, overlay>>

\* play_audio, line 166: ma_device_start
play_start ==
    /\ pc = "p_start"
    /\ ng' = [ng EXCEPT !.ma_device = DeviceStart(@)]
    /\ hist' = [hist EXCEPT !.started = (ng.ma_device # "uninit")]
    /\ pc' = "p_seek"
    /\ UNCHANGED <<upd, buf, muted, clock, overlay>>

\* play_audio, line 167: ma_decoder_seek_to_pcm_frame
play_seek ==
    /\ pc = "p_seek"
    /\ ng' = [ng EXCEPT !.ma_decoder = DecoderSeek(@)]
    /\ hist' = [hist EXCEPT !.seeks = TRUE]
    /\ pc' = IF ng.visual_indicator THEN "f_show" ELSE "idle"
    /\ UNCHANGED <<upd, buf, muted, clock, overlay>>

\* OverlayWidget::queue_show: the three request fields
queue_show(o, timeout, size) ==
    [o EXCEPT !.m_timeout_ms = timeout, !.m_indicator_size = size,
              !.m_want_show = TRUE]

\* indicator_show(cooldown * 0.7f, indicator_size): OverlayWidget::queue_show
filter_show ==
    /\ pc = "f_show"
    /\ overlay' = queue_show(overlay, FlashTimeout(ng.cooldown),
                              ng.indicator_size)
    /\ hist' = [hist EXCEPT !.shown = TRUE]
    /\ pc' = "idle"
    /\ UNCHANGED <<ng, upd, buf, muted, clock>>

\* queue_show field by field, as the processing thread performs it while the
\* UI thread runs: line 38, m_timeout_ms = timeout
queue_show_timeout ==
    /\ pc = "f_show"
    /\ overlay' = [overlay EXCEPT !.m_timeout_ms = FlashTimeout(ng.cooldown)]
    /\ pc' = "q_size"
    /\ UNCHANGED <<ng, upd, buf, muted, clock, hist>>

\* queue_show, line 39: m_indicator_size = size
queue_show_size ==
    /\ pc = "q_size"
    /\ overlay' = [overlay EXCEPT !.m_indicator_size = ng.indicator_size]
    /\ pc' = "q_want"
    /\ UNCHANGED <<ng, upd, buf, muted, clock, hist>>

\* queue_show, line 40: m_want_show = true
queue_show_want ==
    /\ pc = "q_want"
    /\ overlay' = [overlay EXCEPT !.m_want_show = TRUE]
    /\ hist' = [hist EXCEPT !.shown = TRUE]
    /\ pc' = "idle"
    /\ UNCHANGED <<ng, upd, buf, muted, clock>>

\* muted_destroy, line 198: free_wav
destroy_free_wav ==
    /\ pc = "idle"
    /\ ng' = free_wav(ng)
    /\ pc' = "d_free_device"
    /\ UNCHANGED <<upd, buf, muted, clock, overlay, hist>>

\* muted_destroy, lines 199-204: free_device, then the context and the data
destroy_free_device ==
    /\ pc = "d_free_device"
    /\ ng' = free_device(ng)
    /\ pc' = "destroyed"
    /\ UNCHANGED <<upd, buf, muted, clock, overlay, hist>>

\* playback_cb on the output thread: runs while the device is started.  A
\* released decoder is read all the same; what that read returns is not
\* defined, and the cursor is left as it is.
playback_cb ==
    /\ ng.ma_device = "started"
    /\ \E frame_count \in CbFrames :
          ng' = IF ng.ma_decoder.init
                THEN [ng EXCEPT !.ma_decoder = DecoderRead(@, frame_count)]
                ELSE ng
    /\ UNCHANGED <<pc, upd, buf, muted, clock, overlay, hist>>

\* the host mutes or unmutes the parent source.  muted_filter_audio reads the
\* flag once, on entry, so a change during a call is a change after it.
set_muted ==
    /\ pc = "idle"
    /\ muted' = ~muted
    /\ UNCHANGED <<pc, ng, upd, buf, clock, overlay, hist>>

\* the monotonic clock advances.  Only muted_filter_audio reads it, once per
\* call, so an advance during a call is an advance before or after it.
tick ==
    /\ pc = "idle"
    /\ \E step \in ClockSteps :
          /\ clock + step <= MaxClock
          /\ clock' = clock + step
    /\ UNCHANGED <<pc, ng, upd, buf, muted, overlay, hist>>

\* OverlayWidget::tick, the timer's slot on the UI thread, run at time now: a
\* pending request stamps m_start_time and shows the widget; a positive
\* m_timeout_ms that has run out hides it and is zeroed
widget_tick(o, now) ==
    LET shown == IF o.m_want_show
                 THEN [o EXCEPT !.m_start_time = now, !.m_want_show = FALSE,
                                !.size = o.m_indicator_size,
                                !.visible = TRUE, !.restarted = o.visible]
                 ELSE o
    IN  IF shown.m_timeout_ms > 0 /\ now - shown.m_start_time > shown.m_timeout_ms
        THEN [shown EXCEPT !.visible = FALSE, !.m_timeout_ms = 0]
        ELSE shown

\* the timer fires and tick runs to its end
overlay_tick ==
    /\ overlay.pc = "wait"
    /\ overlay' = widget_tick(overlay, clock)
    /\ UNCHANGED <<pc, ng, upd, buf, muted, clock, hist>>

\* the timer's period, m_timer->start(100)
TimerPeriod == 100

\* the timer fires one period after it last did, and tick runs to its end
overlay_timer ==
    /\ pc = "idle"
    /\ overlay.pc = "wait"
    /\ clock + TimerPeriod <= MaxClock
    /\ clock' = clock + TimerPeriod
    /\ overlay' = widget_tick(overlay, clock')
    /\ UNCHANGED <<pc, ng, upd, buf, muted, hist>>

\* tick read by read and write by write, as the UI thread performs it while
\* the processing thread runs: line 66, the test of m_want_show
tick_want ==
    /\ overlay.pc = "wait"
    /\ overlay' = [overlay EXCEPT
                      !.pc = IF overlay.m_want_show THEN "t_start" ELSE "t_timeout"]
    /\ UNCHANGED <<pc, ng, upd, buf, muted, clock, hist>>

\* tick, line 67: m_start_time = currentMSecsSinceEpoch()
tick_start ==
    /\ overlay.pc = "t_start"
    /\ overlay' = [overlay EXCEPT !.m_start_time = clock, !.pc = "t_clear"]
    /\ UNCHANGED <<pc, ng, upd, buf, muted, clock, hist>>

\* tick, line 68: m_want_show = false
tick_clear ==
    /\ overlay.pc = "t_clear"
    /\ overlay' = [overlay EXCEPT !.m_want_show = FALSE, !.pc = "t_visible"]
    /\ UNCHANGED <<pc, ng, upd, buf, muted, clock, hist>>

\* tick, lines 69-71: the size, the position and setVisible(true)
tick_visible ==
    /\ overlay.pc = "t_visible"
    /\ overlay' = [overlay EXCEPT !.size = overlay.m_indicator_size,
                                  !.visible = TRUE,
                                  !.restarted = overlay.visible,
                                  !.pc = "t_timeout"]
    /\ UNCHANGED <<pc, ng, upd, buf, muted, clock, hist>>

\* tick, line 74: the test of m_timeout_ms > 0
tick_timeout ==
    /\ overlay.pc = "t_timeout"
    /\ overlay' = [overlay EXCEPT
                      !.pc = IF overlay.m_timeout_ms > 0 THEN "t_expired" ELSE "wait"]
    /\ UNCHANGED <<pc, ng, upd, buf, muted, clock, hist>>

\* tick, lines 75-77: current_time - m_start_time > m_timeout_ms
tick_expired ==
    /\ overlay.pc = "t_expired"
    /\ overlay' = [overlay EXCEPT
                      !.pc = IF clock - overlay.m_start_time > overlay.m_timeout_ms
                             THEN "t_hide" ELSE "wait"]
    /\ UNCHANGED <<pc, ng, upd, buf, muted, clock, hist>>

\* tick, line 78: setVisible(false)
tick_hide ==
    /\ overlay.pc = "t_hide"
    /\ overlay' = [overlay EXCEPT !.visible = FALSE, !.pc = "t_zero"]
    /\ UNCHANGED <<pc, ng, upd, buf, muted, clock, hist>>

\* tick, line 79: m_timeout_ms = 0
tick_zero ==
    /\ overlay.pc = "t_zero"
    /\ overlay' = [overlay EXCEPT !.m_timeout_ms = 0, !.pc = "wait"]
    /\ UNCHANGED <<pc, ng, upd, buf, muted, clock, hist>>

(* --------------------------- specifications -------------------------- *)

\* sample values of one channel, and the two-channel samples fed to the loop
Samples(values) == { <<x, y>> : x \in values, y \in values }

\* muted_create and muted_update; init_oks are the outcomes of ma_device_init
\* the environment may produce
Update(settings, init_oks) ==
    \/ muted_create
    \/ \E s \in settings : muted_update(s)
    \/ update_free_wav
    \/ update_load_wav
    \/ update_free_device
    \/ update_open_device(init_oks)
    \/ update_free_device2
    \/ update_open_device2(init_oks)

\* muted_destroy
Destroy ==
    \/ destroy_free_wav
    \/ destroy_free_device

\* muted_filter_audio up to the trigger test
Gate(sample_values) ==
    \/ filter_begin
    \/ \E sample \in Samples(sample_values) : filter_sample(sample)
    \/ filter_trigger

\* muted_filter_audio after a trigger: play_audio and indicator_show
Notify ==
    \/ play_start
    \/ play_seek
    \/ filter_show

\* the trigger and cooldown controller: one gate setting, loud and silent
\* samples, both clips, every cooldown step and the clock
TriggerSettings ==
    SettingsOf({"a", "b"}, {"spk"}, {<<-12, -18>>}, {<<0, 0, 0>>},
               {0, 500}, {<<TRUE, TRUE>>})

Next ==
    \/ Update(TriggerSettings, {TRUE})
    \/ Destroy
    \/ Gate({0, 16})
    \/ Notify
    \/ playback_cb
    \/ set_muted
    \/ tick

Spec == Init /\ [][Next]_vars

\* the playback unit: clips that load and one that does not, devices that are
\* enumerated and one that is not, ma_device_init succeeding or failing, with
\* the audio notification on and buffers of loud samples
PlaybackSettings ==
    SettingsOf({"a", "b", "missing"}, {"spk", "hdmi", "none"}, {<<-12, -18>>},
               {<<0, 0, 0>>}, {0}, {<<TRUE, TRUE>>})

NextPlayback ==
    \/ Update(PlaybackSettings, BOOLEAN)
    \/ Destroy
    \/ Gate({16})
    \/ Notify
    \/ playback_cb
    \/ set_muted
    \/ tick

SpecPlayback == Init /\ [][NextPlayback]_vars

\* the notifications: each combination of the audio and visual flags, with a
\* cooldown whose 0.7 multiple is not a whole number of ms, on the clip whose
\* file_length is 0
NotifySettings ==
    SettingsOf({"b"}, {"spk"}, {<<-12, -18>>}, {<<0, 0, 0>>}, {5},
               BOOLEAN \X BOOLEAN)

NextNotify ==
    \/ Update(NotifySettings, {TRUE})
    \/ Gate({0, 16})
    \/ Notify
    \/ playback_cb
    \/ set_muted
    \/ tick

SpecNotify == Init /\ [][NextNotify]_vars

\* the gate engine alone, while the clock stands at 0 (no window has elapsed,
\* so no trigger fires): thresholds in the expected order, equal and reversed;
\* infinite and finite attack and release rates, with and without hold; samples
\* of either sign below, between, at and above the thresholds
GateSettings ==
    SettingsOf({"a"}, {"spk"}, {<<-12, -18>>, <<-12, -12>>, <<-18, -12>>},
               {<<0, 0, 0>>, <<20, 20, 40>>, <<40, 0, 20>>},
               {0}, {<<TRUE, TRUE>>})

NextGate ==
    \/ Update(GateSettings, {TRUE})
    \/ Gate({-16, 0, 6, 8})
    \/ set_muted

SpecGate == Init /\ [][NextGate]_vars

\* the flash: the visual notification alone, with a cooldown whose flash
\* duration is 0 and one whose flash runs out within a clock step; each
\* queue_show and each tick runs to its end
OverlaySettings ==
    SettingsOf({"b"}, {"spk"}, {<<-12, -18>>}, {<<0, 0, 0>>}, {0, 500},
               {<<FALSE, TRUE>>})

NextOverlay ==
    \/ Update(OverlaySettings, {TRUE})
    \/ Gate({16})
    \/ filter_show
    \/ overlay_tick
    \/ set_muted
    \/ tick

SpecOverlay == Init /\ [][NextOverlay]_vars

\* the flash under the timer: the clock read at each firing of the timer,
\* one period after the last, with the cooldown whose flash duration is 0 and
\* one whose flash runs out before the cooldown does
BlinkSettings ==
    SettingsOf({"b"}, {"spk"}, {<<-12, -18>>}, {<<0, 0, 0>>}, {0, 500},
               {<<FALSE, TRUE>>})

NextBlink ==
    \/ Update(BlinkSettings, {TRUE})
    \/ Gate({16})
    \/ filter_show
    \/ overlay_timer
    \/ set_muted

SpecBlink == Init /\ [][NextBlink]_vars

\* queue_show on the processing thread against tick on the UI thread, field
\* by field, every request with a positive flash duration
RaceSettings ==
    SettingsOf({"b"}, {"spk"}, {<<-12, -18>>}, {<<0, 0, 0>>}, {500},
               {<<FALSE, TRUE>>})

\* queue_show, a field at a time
QueueShow ==
    \/ queue_show_timeout
    \/ queue_show_size
    \/ queue_show_want

\* tick, a read or a write at a time
Tick ==
    \/ tick_want
    \/ tick_start
    \/ tick_clear
    \/ tick_visible
    \/ tick_timeout
    \/ tick_expired
    \/ tick_hide
    \/ tick_zero

NextRace ==
    \/ Update(RaceSettings, {TRUE})
    \/ Gate({16})
    \/ QueueShow
    \/ Tick
    \/ set_muted
    \/ tick

SpecRace == Init /\ [][NextRace]_vars

(* ------------------- the trigger and cooldown controller ------------- *)

\* a pass of the sample loop is taken
SampleTaken == pc = "f_loop" /\ buf'.i = buf.i + 1

\* the trigger test after the loop is taken
TriggerTested == pc = "f_loop" /\ pc' # "f_loop"

\* the refractory window file_length + cooldown, in ms
Window == ng.file_length + ng.cooldown

\* C1: a trigger that follows an earlier one (last_play_time is that one's
\* time) never fires at a buffer end less than file_length + cooldown ms after
\* it: when last_play_time moves, it moves by at least the window.
C1_NoRefireInsideWindow ==
    [][(ng.last_play_time > 0 /\ ng'.last_play_time # ng.last_play_time)
          => ~(ng'.last_play_time - ng.last_play_time < Window)]_vars

\* a second trigger has fired, with a window that is not empty
C1_Witness == hist.fired /\ hist.again /\ Window > 0

\* C2 as stated: at the end of a muted call with the gate open, a trigger
\* fires as soon as time - last_play_time >= file_length + cooldown, the
\* elapsed time being exactly the window included (stated for the triggers
\* that follow an earlier one, under a window that is not empty).
C2_FiresAtWindow ==
    [][(TriggerTested /\ ng.is_open /\ ng.last_play_time > 0 /\ Window > 0
        /\ clock - ng.last_play_time >= Window)
          => hist'.fired]_vars

\* C2 amended: at the end of a muted call with the gate open, a trigger fires
\* (last_play_time becomes the current time) whenever time - last_play_time
\* is strictly greater than file_length + cooldown.
C2_FiresAfterWindow ==
    [][(TriggerTested /\ ng.is_open /\ clock - ng.last_play_time > Window)
          => (hist'.fired /\ ng'.last_play_time = clock)]_vars

\* a trigger has recurred under a window that is not empty, at the current time
C2_Witness ==
    /\ hist.fired
    /\ hist.again
    /\ Window > 0
    /\ ng.last_play_time = clock
    /\ ng.is_open

\* C6: a call made while the source is not muted leaves the gate closed and
\* fires nothing (last_play_time, the device and the overlay request are as
\* before); a trigger only fires with the gate open, and a closed gate only
\* opens at a sample above open_threshold of a call made while muted.
C6_UnmutedClosesAndIsSilent ==
    [][/\ (pc = "idle" /\ pc' = "idle" /\ hist'.unmuted)
            => /\ ~ng'.is_open
               /\ ~hist'.fired
               /\ ng'.last_play_time = ng.last_play_time
               /\ ng'.ma_device = ng.ma_device
               /\ overlay' = overlay
       /\ (hist'.fired /\ ~hist.fired)
            => (TriggerTested /\ ng.is_open /\ ~hist.unmuted)
       /\ (~ng.is_open /\ ng'.is_open)
            => (SampleTaken /\ ~hist.unmuted
                /\ buf'.cur_level > ng.open_threshold)]_vars

\* an unmuted call has ended after a trigger had fired and while the level is
\* still above the close threshold
C6_Witness ==
    /\ pc = "idle"
    /\ hist.unmuted
    /\ ~ng.is_open
    /\ ng.last_play_time > 0
    /\ ng.level >= ng.close_threshold
    /\ ng.close_threshold > 0

(* --------------------------- the gate engine ------------------------- *)

\* C3 as stated: after a pass of the sample loop over a sample whose peak is
\* above open_threshold the gate is open, whatever the gate and the level were
\* before.
C3_OpenAfterLoudSample ==
    [][(SampleTaken /\ buf'.cur_level > ng.open_threshold) => ng'.is_open]_vars

\* C3 amended: after a pass over a sample whose peak is above open_threshold
\* the gate is open exactly when the level carried over from the sample before
\* is at or above close_threshold; with a lower level (level = 0 right after a
\* settings update) the same pass closes it again.
C3_OpenAfterLoudSampleIfLevelHeld ==
    [][(SampleTaken /\ buf'.cur_level > ng.open_threshold)
          => (ng'.is_open <=> ng.level >= ng.close_threshold)]_vars

\* a pass over a loud sample has opened a gate that had been closed for some
\* samples, under thresholds in the expected order
C3_Witness ==
    /\ pc = "f_loop"
    /\ buf.i > 0
    /\ buf.cur_level > ng.open_threshold
    /\ ng.is_open
    /\ ng.held_time > 0
    /\ ng.open_threshold > ng.close_threshold

\* C4: the gate goes from closed to open only in a pass of the sample loop
\* over a sample whose peak is strictly above open_threshold: a closed gate
\* stays closed over a sample at or below it, and nothing else opens it.
C4_OpensOnlyAboveThreshold ==
    [][(~ng.is_open /\ ng'.is_open)
          => (SampleTaken /\ buf'.cur_level > ng.open_threshold)]_vars

\* a pass over a sample exactly at open_threshold has left the gate closed
\* although the level would have held it open
C4_Witness ==
    /\ pc = "f_loop"
    /\ buf.i > 0
    /\ buf.cur_level = ng.open_threshold
    /\ ng.open_threshold > 0
    /\ ~ng.is_open
    /\ ng.level >= ng.close_threshold

\* C5: inside the sample loop the gate goes from open to closed only when the
\* level carried over from the sample before is strictly below
\* close_threshold, whatever the sample's own peak.
C5_ClosesOnlyBelowLevel ==
    [][(pc = "f_loop" /\ pc' = "f_loop" /\ ng.is_open /\ ~ng'.is_open)
          => ng.level < ng.close_threshold]_vars

\* a pass over a sample whose peak is below close_threshold has left the gate
\* open
C5_Witness ==
    /\ pc = "f_loop"
    /\ buf.i > 0
    /\ buf.cur_level < ng.close_threshold
    /\ ng.is_open

\* C7: attenuation lies in [0, 1] in every state.
C7_AttenuationInUnitRange == 0 <= ng.attenuation /\ ng.attenuation <= AttOne

\* a finite attack rate that does not divide 1 has brought the attenuation of
\* an open gate to 1
C7_Witness ==
    /\ ~ng.attack_rate.inf
    /\ ng.attack_rate.v = 2
    /\ ng.attenuation = AttOne
    /\ ng.is_open

(* --------------------------- the playback unit ----------------------- *)

\* C8: the output stream is never started (its callback running) while the
\* decoder it reads has been released (a clip had been loaded into it).
C8_NoCallbackOnReleasedDecoder ==
    (ng.ma_device = "started" /\ ng.ma_decoder.clip # NULL) => ng.ma_decoder.init

\* C9: a reconfiguration that reloads the clip releases the decoder only after
\* the device that pulls from it has been uninitialised.
C9_DeviceUninitBeforeDecoder ==
    [][(pc = "u_free_wav" /\ ng.ma_decoder.init /\ ~ng'.ma_decoder.init)
          => ng.ma_device = "uninit"]_vars

\* C10: while no clip is loaded (the last muted_update's load failed), a
\* trigger's play_audio neither starts the output stream nor calls the
\* decoder's seek.
C10_PlayIsNoOpWithoutClip ==
    (ng.file_path = NULL /\ pc \notin {"d_free_device", "destroyed"})
        => (~hist.started /\ ~hist.seeks /\ ng.ma_device # "started")

(* ----------------------------- the clip length ----------------------- *)

\* C11: when a trigger has started the playback of the loaded clip, the clip
\* lasts no longer than the refractory window file_length + cooldown that
\* separates this trigger from the next, so the clip has ended before it is
\* restarted.
C11_ClipEndsInsideWindow ==
    (hist.fired /\ hist.started /\ ng.ma_decoder.init)
        => ClipDurationMs(Clips[ng.ma_decoder.clip]) <= Window

\* C20: while a clip is loaded, file_length is its length in ms:
\* frameCount * 1000 / outputSampleRate rounded down to a whole ms.
C20_FileLengthIsClipLengthMs ==
    ng.file_path # NULL => ng.file_length = ClipDurationMs(Clips[ng.file_path])

(* ------------------------------ muted_update ------------------------- *)

\* the positions of the processing thread inside muted_update
UpdateSteps ==
    {"u_free_wav", "u_load_wav", "u_free_device", "u_open_device",
     "u_free_device2", "u_open_device2"}

\* the gate state as muted_create leaves it
GateIsReset ==
    ~ng.is_open /\ ng.attenuation = 0 /\ ng.level = 0 /\ ng.held_time = 0

\* C12: every step of a muted_update call, from its entry to its return,
\* leaves is_open = false, attenuation = 0, level = 0 and held_time = 0,
\* whatever the gate state was before and whether the reload of the clip and
\* of the device succeeds or fails: a step that leaves another gate state is
\* no step of muted_update.
C12_UpdateResetsGate ==
    [][GateIsReset' \/ ~(\/ pc \in UpdateSteps
                          \/ \E s \in PlaybackSettings : muted_update(s))]_vars

\* an update made after a trigger (the gate had been open) has failed to load
\* its clip and is about to open its device, with the gate state reset
C12_Witness ==
    /\ pc = "u_open_device"
    /\ ng.file_path = NULL
    /\ ng.last_play_time > 0
    /\ GateIsReset

(* ---------------------------- the notifications --------------------- *)

\* the positions of the processing thread inside muted_filter_audio
FilterSteps == {"f_loop", "p_start", "p_seek", "f_show", "q_size", "q_want"}

\* a muted_filter_audio call that went through its sample loop returns
FilterReturns == pc \in FilterSteps /\ pc' = "idle"

\* C13: a trigger sets last_play_time to the current time; a call that
\* triggered has run play_audio exactly when the audio notification is on and
\* has requested a flash exactly when the visual notification is on, of
\* 0.7 * cooldown ms rounded down and of the configured size; a call that did
\* not trigger has done neither, and the overlay's request is as it was.
C13_TriggerNotifiesPerFlags ==
    [][/\ (TriggerTested /\ hist'.fired) => ng'.last_play_time = clock
       /\ (FilterReturns /\ hist'.fired)
            => /\ (hist'.seeks <=> ng.audio_indicator)
               /\ (hist'.shown <=> ng.visual_indicator)
               /\ ng.visual_indicator
                    => /\ overlay'.m_want_show
                       /\ 10 * overlay'.m_timeout_ms <= 7 * ng.cooldown
                       /\ 10 * overlay'.m_timeout_ms > 7 * ng.cooldown - 10
                       /\ overlay'.m_indicator_size = ng.indicator_size
       /\ (FilterReturns /\ ~hist'.fired)
            => (~hist'.seeks /\ ~hist'.shown /\ overlay' = overlay)
       /\ (overlay' # overlay \/ (ng.ma_device # "started" /\ ng'.ma_device = "started"))
            => hist'.fired]_vars

\* a trigger with the visual notification alone and a cooldown of 5 ms has
\* requested a flash of 3 ms
C13_Witness ==
    /\ pc = "idle"
    /\ hist.fired
    /\ hist.shown
    /\ ~hist.seeks
    /\ ng.cooldown = 5
    /\ overlay.m_timeout_ms = 3

(* ------------------------ playback failures -------------------------- *)

\* the gate engine holds the thresholds of the settings (every setting of
\* PlaybackSettings gives -12 dB and -18 dB)
ThresholdsConfigured ==
    /\ ng.open_threshold = db_to_mul(-12)
    /\ ng.close_threshold = db_to_mul(-18)

\* C14: whatever part of the playback unit has failed (the clip's decoding,
\* the device's lookup or initialisation, the context's initialisation in
\* muted_create), muted_filter_audio runs its sample loop on the configured
\* thresholds, and with the visual notification on in the settings (as in
\* every setting of PlaybackSettings) a call that triggers requests a flash.
C14_EngineRunsWithoutPlayback ==
    [][/\ pc \in FilterSteps => ThresholdsConfigured
       /\ (FilterReturns /\ hist'.fired) => hist'.shown]_vars

\* C15: once ma_context_init has failed in muted_create, the processing thread
\* never reaches a load of the clip, an open of the device or a start of the
\* playback, and no decoder or device ever becomes initialised.
C15_NoBackendUseAfterContextFailure ==
    (pc # "create" /\ ~ng.ma_initialized)
        => /\ pc \notin {"u_load_wav", "u_open_device", "u_open_device2",
                          "p_start", "p_seek"}
           /\ ~ng.ma_decoder.init
           /\ ng.ma_device = "uninit"

\* C16: with an initialised context, a muted_update call attempts open_device
\* at most once (after the attempt that follows the clip's reload the call
\* returns, whether the attempt failed or not), and muted_filter_audio never
\* attempts it.
C16_OpenAttemptedOncePerUpdate ==
    [][/\ (pc = "u_open_device" /\ ng.ma_initialized) => pc' = "idle"
       /\ pc \in FilterSteps => pc' \notin UpdateSteps]_vars

(* ------------------------------ the buffer --------------------------- *)

\* C17: muted_filter_audio leaves every sample of the buffer it returns as it
\* was given: after each pass of the sample loop the buffer holds the sample
\* the pass was given, whether the gate is open or closed, whether a trigger
\* fires and whatever the playback unit's state; a call on an unmuted source
\* makes no pass at all.
C17_BufferUnchanged ==
    /\ buf.stored = buf.sample
    /\ hist.unmuted => buf = NoBuf

\* a pass over a sample that is not silent has run with the attenuation at 0
\* and the gate closed, under configured thresholds and while no clip is loaded
C17_Witness ==
    /\ pc = "f_loop"
    /\ buf.i > 0
    /\ buf.sample # <<0, 0>>
    /\ buf.stored = buf.sample
    /\ ng.attenuation = 0
    /\ ~ng.is_open
    /\ ng.open_threshold > 0
    /\ ng.file_path = NULL

(* --------------------------- the mute state -------------------------- *)

\* C18 as stated: every call of muted_filter_audio, on a muted source or not,
\* runs the sample loop over its buffer before the mute state is looked at.
C18_EveryCallRunsLoop == [][filter_begin => pc' = "f_loop"]_vars

\* C18 amended: the mute state is read first.  A call on an unmuted source
\* sets is_open = false and returns without a pass of the sample loop: level,
\* attenuation and held_time are as before.  Only a call on a muted source
\* runs the loop, over the whole buffer, and tests the trigger after it.
C18_UnmutedCallSkipsLoop ==
    [][/\ (pc = "idle" /\ pc' = "idle" /\ hist'.unmuted)
            => /\ ~ng'.is_open
               /\ ng'.level = ng.level
               /\ ng'.attenuation = ng.attenuation
               /\ ng'.held_time = ng.held_time
               /\ buf' = NoBuf
       /\ (SampleTaken \/ TriggerTested) => ~hist.unmuted
       /\ TriggerTested => buf.i = buf.frames]_vars

\* a call on an unmuted source has returned with the gate closed and with the
\* level, the attenuation and the held time an earlier muted call left
C18_Witness ==
    /\ pc = "idle"
    /\ hist.unmuted
    /\ ~ng.is_open
    /\ ng.level > 0
    /\ ng.attenuation > 0
    /\ ng.held_time > 0

(* ------------------------ one trigger per buffer --------------------- *)

\* the refractory window has elapsed at the current time
WindowElapsed == clock - ng.last_play_time > Window

\* C19 as stated: a trigger fires only in the trigger test after the last
\* sample and only with the gate open then, and a buffer whose samples are
\* all above open_threshold fires one when the window has elapsed.
C19_LoudBufferFires ==
    [][/\ (hist'.fired /\ ~hist.fired)
            => (TriggerTested /\ buf.i = buf.frames /\ ng.is_open)
       /\ (TriggerTested /\ buf.frames > 0 /\ buf.loud /\ WindowElapsed)
            => hist'.fired]_vars

\* C19 amended: a trigger fires, and last_play_time moves, only in the one
\* trigger test of a call, after the last sample, and only with the gate open
\* then: a gate that a pass opened and that is closed after the last sample
\* fires nothing; a buffer whose samples are all above open_threshold, tested
\* when the window has elapsed, fires exactly when the gate is open after
\* its last sample.
C19_OneTriggerFromFinalGate ==
    [][/\ ((hist'.fired /\ ~hist.fired)
            \/ ng'.last_play_time # ng.last_play_time)
            => (TriggerTested /\ buf.i = buf.frames /\ ng.is_open)
       /\ (TriggerTested /\ ~ng.is_open) => ~hist'.fired
       /\ (TriggerTested /\ buf.frames > 0 /\ buf.loud /\ WindowElapsed)
            => (hist'.fired <=> ng.is_open)]_vars

\* the last sample of a buffer has been processed after the window elapsed,
\* a pass of this call had opened the gate, and the gate is closed
C19_Witness ==
    /\ pc = "f_loop"
    /\ buf.i = buf.frames
    /\ buf.opened
    /\ ~ng.is_open
    /\ WindowElapsed
    /\ ng.last_play_time > 0

(* --------------------------- the clip reload ------------------------- *)

\* C21: when muted_update has returned, file_length is the length load_wav
\* computed for the clip that is loaded, and it holds no clip's length when
\* none is loaded (the last load failed).
C21_ReloadInvalidatesLength ==
    pc = "idle"
        => ng.file_length = IF ng.file_path = NULL THEN 0
                            ELSE FileLength(Clips[ng.file_path])

(* ------------------------------ held_time ---------------------------- *)

\* a call on an unmuted source returns (or the filter rests after one)
UnmutedCall == pc = "idle" /\ pc' = "idle" /\ hist'.unmuted

\* C22 as stated: at every transition of the gate from open to closed
\* held_time restarts from 0: after the pass of the sample loop that closes
\* the gate it is that one sample's period, after a forced close it is 0.
C22_HeldTimeResetAtEveryClose ==
    [][(ng.is_open /\ ~ng'.is_open)
          => ng'.held_time = IF SampleTaken THEN ng.sample_rate_i ELSE 0]_vars

\* C22 amended: held_time restarts from 0 only at the level-based close in the
\* sample loop (and in muted_update): a pass that closes the gate, or opens
\* and closes it, leaves one sample period; a pass over a gate that stays
\* closed adds one sample period; a pass that leaves the gate open, and the
\* forced close of a call on an unmuted source, leave held_time as it was.
C22_HeldTimeResetAtLevelClose ==
    [][/\ (SampleTaken /\ ~ng'.is_open)
            => ng'.held_time =
                  IF ng.is_open \/ buf'.cur_level > ng.open_threshold
                  THEN ng.sample_rate_i
                  ELSE ng.held_time + ng.sample_rate_i
       /\ (SampleTaken /\ ng'.is_open) => ng'.held_time = ng.held_time
       /\ UnmutedCall => ng'.held_time = ng.held_time]_vars

\* a call on an unmuted source has closed a gate the level would have held
\* open, and held_time still counts the closed samples from before the gate
\* opened, beyond the hold time
C22_Witness ==
    /\ pc = "idle"
    /\ hist.unmuted
    /\ ~ng.is_open
    /\ ng.level >= ng.close_threshold
    /\ ng.close_threshold > 0
    /\ ng.hold_time > 0
    /\ ng.held_time > ng.hold_time

(* -------------------------------- level ------------------------------ *)

\* C23 as stated: over silent samples the level is not held up and drifts
\* down without bound: each silent sample met with a level at or below 0
\* lowers the level by decay_rate.
C23_LevelDriftsDown ==
    [][(SampleTaken /\ buf'.cur_level = 0 /\ ng.level <= 0)
          => ng'.level = ng.level - ng.decay_rate]_vars

\* C23 amended: the level is bounded below.  cur_level is an absolute value,
\* so fmaxf(level, cur_level) is at least 0 and every pass of the sample loop
\* leaves level >= -decay_rate; a silent sample met with a level at or below
\* 0 leaves exactly -decay_rate, however many silent samples came before.
C23_LevelBoundedBelow ==
    [][/\ SampleTaken => ng'.level >= -ng.decay_rate
       /\ (SampleTaken /\ buf'.cur_level = 0 /\ ng.level <= 0)
            => ng'.level = -ng.decay_rate]_vars

\* a silent sample has been processed after the gate had been closed for three
\* samples, and the level stands at -decay_rate
C23_Witness ==
    /\ pc = "f_loop"
    /\ buf.i > 0
    /\ buf.cur_level = 0
    /\ ng.decay_rate > 0
    /\ ng.level = -ng.decay_rate
    /\ ng.held_time >= 3 * ng.sample_rate_i

\* C24: under configured thresholds with open_threshold >= close_threshold an
\* open gate does not stay open over silence: a sample of zeros on all
\* channels that leaves the gate open has lowered the level.  (The pass is a function of is_open, level and the sample: a
\* silent sample that leaves both as they were does so at every later silent
\* sample too, and the gate never closes.)
C24_SilenceClosesGate ==
    [][(/\ SampleTaken
        /\ buf'.sample = <<0, 0>>
        /\ ng.is_open
        /\ ng'.is_open
        /\ ng.close_threshold > 0
        /\ ng.open_threshold >= ng.close_threshold)
          => ng'.level < ng.level]_vars

(* ------------------------------ play_audio --------------------------- *)

\* C25: play_audio rewinds the decoder before it starts the stream, so no
\* callback reads from the cursor of before the rewind once play_audio has
\* started the stream: while play_audio stands between its start and its seek
\* the cursor of the loaded clip does not move.
C25_RewindBeforeStart ==
    [][(pc = "p_seek" /\ pc' = "p_seek" /\ ng.ma_decoder.init)
          => ng'.ma_decoder.cursor = ng.ma_decoder.cursor]_vars

\* the loaded clip has been read to its end
AtEnd ==
    /\ ng.ma_decoder.init
    /\ ng.ma_decoder.cursor = Clips[ng.ma_decoder.clip].frameCount

\* C26: a started stream stays started until free_device uninitialises the
\* device in muted_update or muted_destroy: neither the callback nor
\* muted_filter_audio stops it.  At the clip's end the callback reads nothing
\* more: the cursor of the loaded clip stays at the end until play_audio's
\* seek.
C26_StreamStaysStartedAtEnd ==
    [][/\ (ng.ma_device = "started" /\ ng'.ma_device # "started")
            => pc \in {"u_free_device", "u_free_device2", "d_free_device"}
       /\ (AtEnd /\ ng'.ma_decoder.init
            /\ ng'.ma_decoder.cursor # ng.ma_decoder.cursor)
            => (pc = "p_seek" /\ pc' # "p_seek")]_vars

\* the three-frame clip has been played to its end, the stream is still
\* started and a later call on an unmuted source has returned
C26_Witness ==
    /\ pc = "idle"
    /\ hist.unmuted
    /\ ng.ma_device = "started"
    /\ AtEnd
    /\ ng.ma_decoder.cursor = 3

(* ------------------------- the device's format ----------------------- *)

\* C27: whenever the device and the decoder are both initialised, the device
\* is configured with the sample format, the channel count and the sample
\* rate of the decoder's clip.
C27_DeviceFormatMatchesDecoder ==
    (ng.ma_device # "uninit" /\ ng.ma_decoder.init)
        => ng.device_config = DecoderFormat(ng.ma_decoder)

(* ------------------------- the unchanged update ---------------------- *)

\* the decoder and the device with their names
Resources ==
    <<ng.file_path, ng.ma_decoder, ng.device, ng.ma_device, ng.device_config>>

\* C28: a muted_update whose file and device are the ones loaded and opened
\* returns without touching the decoder or the device (the cursor and the
\* started state are as before); muted_update goes into its reload steps only
\* with a file or a device that differs from the loaded one, or after a load
\* or an open that failed (file_path or device is NULL).
C28_SameSettingsKeepResources ==
    [][/\ \A s \in PlaybackSettings :
             (/\ pc \in {"idle", "update"}
              /\ s.file = ng.file_path
              /\ s.device = ng.device
              /\ muted_update(s))
                => (pc' = "idle" /\ Resources' = Resources)
       /\ (pc \notin UpdateSteps /\ pc' \in UpdateSteps)
            => (upd'.path # ng.file_path \/ upd'.device # ng.device)]_vars

\* a muted_update has reset the gate after a trigger started the stream, and
\* the stream is still started with the cursor inside the clip
C28_Witness ==
    /\ pc = "idle"
    /\ GateIsReset
    /\ ng.ma_device = "started"
    /\ ng.ma_decoder.init
    /\ ng.ma_decoder.cursor > 0
    /\ ~AtEnd

\* C29: every flash is timed.  Once tick has shown the overlay for a request
\* (m_want_show is consumed), a hide deadline is pending: m_timeout_ms is
\* positive, so the tick that finds it run out hides the overlay.  With
\* m_timeout_ms = 0 no tick hides it, whatever the clock: tick's hide branch
\* is guarded by m_timeout_ms > 0 and only a further request sets the field.
C29_ShownFlashHasDeadline ==
    (overlay.visible /\ ~overlay.m_want_show) => overlay.m_timeout_ms > 0

\* the request fields are as the processing thread's last queue_show left
\* them, or as tick's consumption of that request left them
NoRequestInProgress == pc \notin {"f_show", "q_size", "q_want"}

\* C30: queue_show and tick interleaved a field at a time, every request with
\* a positive timeout.  When both are at rest (no queue_show under way, tick
\* waiting for the timer, no request pending) a visible overlay still has its
\* positive m_timeout_ms, so a later tick hides it: no interleaving leaves
\* the overlay visible with nothing to hide it.
C30_NoInterleavingLeavesOverlayVisible ==
    (/\ NoRequestInProgress
     /\ overlay.pc = "wait"
     /\ ~overlay.m_want_show
     /\ overlay.visible)
        => overlay.m_timeout_ms > 0

\* C31: a request that arrives while the overlay is visible is taken by the
\* next tick (the timer's firing, the step that moves the clock): the one
\* overlay takes the request's size, m_start_time is the tick's time, the
\* request's duration is the deadline and no request is left pending; and a
\* flash restarted so is not visible after a tick at which more than its
\* duration has passed since the restart.
C31_LaterRequestRestartsFlash ==
    /\ [][(clock' # clock /\ overlay.visible /\ overlay.m_want_show)
            => /\ overlay'.visible
               /\ overlay'.size = overlay.m_indicator_size
               /\ overlay'.m_start_time = clock'
               /\ overlay'.m_timeout_ms = overlay.m_timeout_ms
               /\ ~overlay'.m_want_show]_vars
    /\ []((overlay.restarted /\ overlay.visible /\ ~overlay.m_want_show)
            => clock - overlay.m_start_time <= overlay.m_timeout_ms)

\* C32: the indicator blinks.  With the visual notification on and the timer
\* firing every period, when a trigger follows an earlier one the overlay has
\* been hidden in between: at the later trigger it is not still showing a
\* flash of the configured cooldown's duration.  Only triggers more than two
\* timer periods apart are held to this, so that one tick could show the
\* flash and a later one hide it.
C32_OverlayHiddenBetweenTriggers ==
    [][(/\ pc = "f_loop"
        /\ pc' = "f_show"
        /\ ng.last_play_time > 0
        /\ clock - ng.last_play_time > 2 * TimerPeriod)
          => ~(/\ overlay.visible
               /\ overlay.m_timeout_ms = FlashTimeout(ng.cooldown))]_vars

=============================================================================
